---------------------------- MODULE Spec2Model ----------------------------
(***************************************************************************)
(* A model of pypicloud/util.py: normalize_name, parse_filename (with the  *)
(* distlib split it delegates to), getdefaults, the retry decorator and    *)
(* BetterScrapingLocator's locate/score_url.                               *)
(*                                                                         *)
(* Python strings are sequences of one-character strings.  The functions   *)
(* of the module are independent, so each has a specification of its own   *)
(* (SpecNorm, SpecParse, SpecDefaults, SpecRetry, SpecScore, SpecLocate);   *)
(* the variables of the other functions stay at their idle values.         *)
(***************************************************************************)
EXTENDS Integers, Sequences, FiniteSets, TLC

VARIABLES
    \* normalize_name
    nn_arg, nn_ret, nn_pc, nn_calls,
    \* parse_filename
    ALL_EXTENSIONS, pf_filename, pf_name, pf_pc, pf_ret,
    \* getdefaults
    gd_settings, gd_args, gd_pc, gd_ret, gd_log,
    \* retry
    r_tries, r_exceptions, r_iter, r_pc, r_ret, r_attempts, r_wrapper_calls,
    \* BetterScrapingLocator
    prefer_wheel, l_pc, l_wheel, l_scored, pu_url1, pu_url2, pu_ret

normVars == <<nn_arg, nn_ret, nn_pc, nn_calls>>
parseVars == <<ALL_EXTENSIONS, pf_filename, pf_name, pf_pc, pf_ret>>
defaultsVars == <<gd_settings, gd_args, gd_pc, gd_ret, gd_log>>
retryVars == <<r_tries, r_exceptions, r_iter, r_pc, r_ret, r_attempts, r_wrapper_calls>>
locatorVars == <<prefer_wheel, l_pc, l_wheel, l_scored, pu_url1, pu_url2, pu_ret>>
vars == <<normVars, parseVars, defaultsVars, retryVars, locatorVars>>

---------------------------------------------------------------------------
(* Bounds of the model.                                                    *)
MaxNameLen == 4
MaxNormCalls == 2
MaxStemLen == 3
MaxKeys == 3
MaxTries == 3
MaxWrapperCalls == 2
MaxScored == 2

---------------------------------------------------------------------------
(* Python values.                                                          *)

\* None, where a string is expected: a one-element sequence that is no string
\* of one-character strings.
None == <<"None">>

UpperLetters ==
    <<"A","B","C","D","E","F","G","H","I","J","K","L","M",
      "N","O","P","Q","R","S","T","U","V","W","X","Y","Z">>
LowerLetters ==
    <<"a","b","c","d","e","f","g","h","i","j","k","l","m",
      "n","o","p","q","r","s","t","u","v","w","x","y","z">>
Digits == {"0","1","2","3","4","5","6","7","8","9"}

Range(s) == {s[i] : i \in 1..Len(s)}
IsUpper(c) == c \in Range(UpperLetters)
IsLower(c) == c \in Range(LowerLetters)

\* str.lower() on one character
LowerChar(c) ==
    IF IsUpper(c)
    THEN LowerLetters[CHOOSE i \in 1..Len(UpperLetters) : UpperLetters[i] = c]
    ELSE c

\* str.lower()
lower(s) == [i \in 1..Len(s) |-> LowerChar(s[i])]

\* s.endswith(suffix)
endswith(s, suffix) ==
    /\ Len(suffix) <= Len(s)
    /\ SubSeq(s, Len(s) - Len(suffix) + 1, Len(s)) = suffix

\* s[:n] and s[n:] for 0 <= n
Prefix(s, n) == SubSeq(s, 1, IF n < Len(s) THEN n ELSE Len(s))
Suffix(s, n) == SubSeq(s, n + 1, Len(s))

\* All strings over alphabet of length at most n
RECURSIVE StringsUpTo(_, _)
StringsUpTo(alphabet, n) ==
    IF n = 0 THEN {<<>>}
    ELSE LET shorter == StringsUpTo(alphabet, n - 1)
         IN  shorter \cup {Append(s, c) : s \in shorter, c \in alphabet}

---------------------------------------------------------------------------
(* normalize_name                                                          *)

\* the character class [-_.]
IsSeparator(c) == c \in {"-", "_", "."}

\* the length of the maximal run of [-_.] at the start of s
RECURSIVE SeparatorRun(_)
SeparatorRun(s) ==
    IF s # <<>> /\ IsSeparator(Head(s)) THEN 1 + SeparatorRun(Tail(s)) ELSE 0

\* A plausible slip: "[-_.]" without the "+", each separator replaced alone.
RECURSIVE SubEachSeparator(_)
SubEachSeparator(s) ==
    IF s = <<>> THEN <<>>
    ELSE <<IF IsSeparator(Head(s)) THEN "-" ELSE Head(s)>>
             \o SubEachSeparator(Tail(s))

\* re.sub(r"[-_.]+", "-", s): every maximal run becomes one "-"
RECURSIVE SubSeparatorRuns(_)
SubSeparatorRuns(s) ==
    IF s = <<>> THEN <<>>
    ELSE IF IsSeparator(Head(s))
         THEN <<"-">> \o SubSeparatorRuns(Suffix(s, SeparatorRun(s)))
         ELSE <<Head(s)>> \o SubSeparatorRuns(Tail(s))

normalize_name(name) == lower(SubSeparatorRuns(name))

NameAlphabet == {"a", "B", "-", "_", "."}
NameStrings == StringsUpTo(NameAlphabet, MaxNameLen)

NormIdle ==
    /\ nn_arg = <<>> /\ nn_ret = None /\ nn_pc = "idle" /\ nn_calls = 0

NormInit ==
    /\ nn_arg \in NameStrings
    /\ nn_ret = None
    /\ nn_pc = "ready"
    /\ nn_calls = 0

\* one call normalize_name(nn_arg)
NormalizeCall ==
    /\ nn_pc = "ready"
    /\ nn_ret' = normalize_name(nn_arg)
    /\ nn_pc' = "returned"
    /\ nn_calls' = nn_calls + 1
    /\ UNCHANGED nn_arg

\* the caller passes the result back in: normalize_name(normalize_name(s))
NormalizeResult ==
    /\ nn_pc = "returned"
    /\ nn_calls < MaxNormCalls
    /\ nn_arg' = nn_ret
    /\ nn_pc' = "ready"
    /\ UNCHANGED <<nn_ret, nn_calls>>

---------------------------------------------------------------------------
(* distlib.util.split_filename, which parse_filename delegates to.         *)

\* \w and [a-z0-9_] under re.I
IsWordChar(c) == IsLower(c) \/ IsUpper(c) \/ c \in Digits \/ c = "_"
\* [a-z_] under re.I
IsSegmentStart(c) == IsLower(c) \/ IsUpper(c) \/ c = "_"
\* [a-z0-9_.+-] under re.I
IsVersionChar(c) == IsWordChar(c) \/ c \in {".", "+", "-"}

\* filename.replace(' ', '-')
ReplaceSpaces(s) == [i \in 1..Len(s) |-> IF s[i] = " " THEN "-" ELSE s[i]]

\* PYTHON_VERSION = '-py(\d\.?\d?)': whether it matches at offset i (0-based)
PyVersionAt(s, i) ==
    /\ i + 4 <= Len(s)
    /\ s[i + 1] = "-" /\ s[i + 2] = "p" /\ s[i + 3] = "y"
    /\ s[i + 4] \in Digits

\* PYTHON_VERSION.search(s).start(), or -1: the leftmost match
PyVersionStart(s) ==
    LET at == {i \in 0..Len(s) : PyVersionAt(s, i)}
    IN  IF at = {} THEN -1 ELSE CHOOSE i \in at : \A j \in at : i <= j

\* group(1) of the match at offset i: a digit, then greedily "." and a digit
PyVersionGroup(s, i) ==
    LET d == i + 4
        dot == d + 1 <= Len(s) /\ s[d + 1] = "."
        e == IF dot THEN d + 1 ELSE d
        dig == e + 1 <= Len(s) /\ s[e + 1] \in Digits
    IN  SubSeq(s, d, IF dig THEN e + 1 ELSE e)

\* The state of a matcher of [a-z0-9_]+([.-][a-z_][a-z0-9_]*)* after s:
\* "start", "word" (accepting), "sep" (a segment must start) or "dead".
RECURSIVE NameMatcher(_)
NameMatcher(s) ==
    IF s = <<>> THEN "start"
    ELSE LET before == NameMatcher(Prefix(s, Len(s) - 1))
             c == s[Len(s)]
         IN  CASE before = "start" -> IF IsWordChar(c) THEN "word" ELSE "dead"
               [] before = "word" ->
                    IF IsWordChar(c) THEN "word"
                    ELSE IF c \in {".", "-"} THEN "sep" ELSE "dead"
               [] before = "sep" -> IF IsSegmentStart(c) THEN "word" ELSE "dead"
               [] OTHER -> "dead"

\* The ends e of group 1 with which PROJECT_NAME_AND_VERSION can match s:
\* s[:e] is a name, s[e] is "-" and at least one version character follows.
NameEnds(s) ==
    {e \in 1..Len(s) :
        /\ NameMatcher(Prefix(s, e)) = "word"
        /\ e + 2 <= Len(s)
        /\ s[e + 1] = "-"
        /\ IsVersionChar(s[e + 2])}

\* the length of the maximal run of version characters at the start of s
RECURSIVE VersionRun(_)
VersionRun(s) ==
    IF s # <<>> /\ IsVersionChar(Head(s)) THEN 1 + VersionRun(Tail(s)) ELSE 0

\* PROJECT_NAME_AND_VERSION.match(s): the quantifiers are greedy, so group 1
\* is the longest name that leaves "-" and a version behind it.
ProjectNameAndVersion(s, pyver) ==
    LET ends == NameEnds(s)
    IN  IF ends = {} THEN [found |-> FALSE]
        ELSE LET e == CHOOSE x \in ends : \A y \in ends : y <= x
                 rest == Suffix(s, e + 1)
             IN  [found |-> TRUE, name |-> Prefix(s, e),
                  version |-> Prefix(rest, VersionRun(rest)), pyver |-> pyver]

\* re.match(re.escape(project_name) + r'\b', s): s starts with the name and a
\* word boundary follows it
HintMatches(s, project_name) ==
    LET n == Len(project_name)
    IN  /\ n < Len(s)
        /\ Prefix(s, n) = project_name
        /\ IsWordChar(s[n]) # IsWordChar(s[n + 1])

\* split_filename(filename, project_name): [found |-> FALSE] is None
split_filename(filename, project_name) ==
    LET replaced == ReplaceSpaces(filename)
        start == PyVersionStart(replaced)
        pyver == IF start >= 0 THEN PyVersionGroup(replaced, start) ELSE None
        cut == IF start >= 0 THEN Prefix(replaced, start) ELSE replaced
        n == Len(project_name)
    IN  IF /\ project_name # None /\ project_name # <<>>
           /\ Len(cut) > n + 1
           /\ HintMatches(cut, project_name)
        THEN [found |-> TRUE, name |-> Prefix(cut, n),
              version |-> Suffix(cut, n + 1), pyver |-> pyver]
        ELSE ProjectNameAndVersion(cut, pyver)

---------------------------------------------------------------------------
(* parse_filename                                                          *)

\* Locator.source_extensions and Locator.binary_extensions of distlib
SourceExtensions ==
    << <<".","t","a","r",".","g","z">>, <<".","t","a","r",".","b","z","2">>,
       <<".","t","a","r">>, <<".","z","i","p">>, <<".","t","g","z">>,
       <<".","t","b","z">> >>
BinaryExtensions ==
    << <<".","e","g","g">>, <<".","e","x","e">>, <<".","w","h","l">> >>

\* ALL_EXTENSIONS is read from the installed distlib when the module is
\* imported: the list as distlib ships it, and a Locator whose
\* source_extensions also list ".gz", after ".tar.gz".
ExtensionLists ==
    { SourceExtensions \o BinaryExtensions,
      SourceExtensions \o << <<".","g","z">> >> \o BinaryExtensions }

\* A plausible slip: "continue" where the code has "break" on a failed split.
RECURSIVE SplitFirstSuccess(_, _, _)
SplitFirstSuccess(exts, filename, name) ==
    IF exts = <<>> THEN [found |-> FALSE]
    ELSE LET parsed ==
                 split_filename(Prefix(filename, Len(filename) - Len(Head(exts))), name)
         IN  IF endswith(filename, Head(exts)) /\ parsed.found
             THEN parsed
             ELSE SplitFirstSuccess(Tail(exts), filename, name)

\* the for loop over the extensions: the first extension that is a suffix
\* decides, whether its split succeeds or not (both branches break)
RECURSIVE SplitFirstMatch(_, _, _)
SplitFirstMatch(exts, filename, name) ==
    IF exts = <<>> THEN [found |-> FALSE]
    ELSE IF endswith(filename, Head(exts))
         THEN split_filename(Prefix(filename, Len(filename) - Len(Head(exts))), name)
         ELSE SplitFirstMatch(Tail(exts), filename, name)

\* A plausible slip: the parsed name returned whatever the caller passed.
ReturnedParsedName(name, parsed_name) == parsed_name

\* the name that is normalized and returned: the caller's, when one is given
ReturnedName(name, parsed_name) == IF name = None THEN parsed_name ELSE name

\* A plausible slip: the version normalized like the name.
ReturnedLoweredVersion(version) == lower(version)

\* the version that is returned: the split's, as it is
ReturnedVersion(version) == version

parse_filename(exts, filename, name) ==
    LET parsed == SplitFirstMatch(exts, filename, name)
    IN  IF ~parsed.found
        THEN [raised |-> TRUE, exc |-> "ValueError", filename |-> filename]
        ELSE [raised |-> FALSE,
              name |-> normalize_name(ReturnedName(name, parsed.name)),
              version |-> ReturnedVersion(parsed.version)]

StemAlphabet == {"a", "B", "1", "-", "."}
ExampleStems ==
    { <<"r","e","q","u","e","s","t","s","-","2",".","1","8",".","4">>,
      <<"F","o","o","_","B","a","r","-","1",".","0">>,
      <<"n","o","t","-","a","-","p","a","c","k","a","g","e","-","f","i","l","e">>,
      <<"a"," ","b","-","1">> }
Stems == StringsUpTo(StemAlphabet, MaxStemLen) \cup ExampleStems
PyTags == { <<>>, <<"-","p","y","2","-","n","o","n","e","-","a","n","y">> }
FileSuffixes ==
    { <<>>, <<".","t","x","t">>, <<".","g","z">>, <<".","t","a","r",".","g","z">>,
      <<".","w","h","l">> }
HintNames == { None, <<>>, <<"a">>, <<"F","o","o","_","B","a","r">> }

ParseIdle ==
    /\ ALL_EXTENSIONS = <<>> /\ pf_filename = <<>> /\ pf_name = None
    /\ pf_pc = "idle" /\ pf_ret = [raised |-> FALSE]

ParseInit ==
    /\ ALL_EXTENSIONS \in ExtensionLists
    /\ \E stem \in Stems, tag \in PyTags, suffix \in FileSuffixes :
           pf_filename = stem \o tag \o suffix
    /\ pf_name \in HintNames
    /\ pf_pc = "ready"
    /\ pf_ret = [raised |-> FALSE]

\* one call parse_filename(pf_filename, pf_name)
ParseFilenameCall ==
    /\ pf_pc = "ready"
    /\ pf_ret' = parse_filename(ALL_EXTENSIONS, pf_filename, pf_name)
    /\ pf_pc' = IF pf_ret'.raised THEN "raised" ELSE "returned"
    /\ UNCHANGED <<ALL_EXTENSIONS, pf_filename, pf_name>>

---------------------------------------------------------------------------
(* getdefaults                                                             *)

SettingKeys == {"new_key", "old_key", "older_key"}
SettingValues == {"v", "w"}
\* the dicts over the keys: functions on a subset of them
SettingsDicts == UNION {[ks -> SettingValues] : ks \in SUBSET SettingKeys}

\* A plausible slip: the warning logged for the canonical key as well.
IsDeprecatedAlways(key, canonical) == TRUE

\* key != canonical: the key found is a deprecated alias
IsDeprecated(key, canonical) == key # canonical

\* the for loop over the keys: what the call returns and what it logs, from
\* the first key that is in settings
RECURSIVE KeyLoop(_, _, _, _)
KeyLoop(settings, keys, canonical, default) ==
    IF keys = <<>> THEN [ret |-> default, warned |-> <<>>]
    ELSE IF Head(keys) \in DOMAIN settings
         THEN [ret |-> settings[Head(keys)],
               warned |-> IF IsDeprecated(Head(keys), canonical)
                          THEN << [key |-> Head(keys), canonical |-> canonical] >>
                          ELSE <<>>]
         ELSE KeyLoop(settings, Tail(keys), canonical, default)

\* getdefaults(settings, *args): the assertion, then the loop
getdefaults(settings, args) ==
    IF Len(args) < 3
    THEN [raised |-> TRUE, exc |-> "AssertionError", warned |-> <<>>]
    ELSE LET keys == Prefix(args, Len(args) - 1)
             default == args[Len(args)]
             found == KeyLoop(settings, keys, keys[1], default)
         IN  [raised |-> FALSE, ret |-> found.ret, warned |-> found.warned]

DefaultsIdle ==
    /\ gd_settings = <<>> /\ gd_args = <<>> /\ gd_pc = "idle"
    /\ gd_ret = "" /\ gd_log = <<>>

DefaultsInit ==
    /\ gd_settings \in SettingsDicts
    /\ \E n \in 0..MaxKeys : \E keys \in [1..n -> SettingKeys] :
           gd_args = keys \o <<"default">>
    /\ gd_pc = "ready"
    /\ gd_ret = ""
    /\ gd_log = <<>>

\* one call getdefaults(gd_settings, *gd_args); LOG.warn appends to the log
GetDefaultsCall ==
    /\ gd_pc = "ready"
    /\ LET out == getdefaults(gd_settings, gd_args)
       IN  /\ gd_pc' = IF out.raised THEN "raised" ELSE "returned"
           /\ gd_ret' = IF out.raised THEN out.exc ELSE out.ret
           /\ gd_log' = gd_log \o out.warned
    /\ UNCHANGED <<gd_settings, gd_args>>

---------------------------------------------------------------------------
(* retry                                                                   *)

ExceptionClasses == {"IOError", "KeyError"}
FnValues == {"ok"}
\* the values of the exceptions argument: the default (Exception,), one
\* class, and the empty tuple
ExceptionTuples == {{"Exception"}, {"IOError"}, {}}

\* issubclass(cls, base)
IsSubclass(cls, base) == cls = base \/ base = "Exception"

\* A plausible slip: a bare "except:".
CaughtAny(cls, exceptions) == TRUE

\* "except exceptions:" catches an instance of any class of the tuple
Caught(cls, exceptions) == \E base \in exceptions : IsSubclass(cls, base)

\* A plausible slip: the loop counted from 1.
xrangeFromOne(tries) == [i \in 1..tries |-> i]

\* xrange(tries), as the sequence of the values n takes
xrange(tries) == [i \in 1..tries |-> i - 1]

\* A plausible slip: the comparison off by one.
IsLastTryOffByOne(n, tries) == n = tries

\* n == tries - 1: this was the last try
IsLastTry(n, tries) == n = tries - 1

\* What one call of fn can do on its attempt-th invocation: return a value
\* or raise an exception.  The attempt number tells the outcomes of
\* different attempts apart, as object identity does.
FnOutcomes(attempt) ==
    {[raised |-> FALSE, val |-> v, attempt |-> attempt] : v \in FnValues}
    \cup {[raised |-> TRUE, val |-> c, attempt |-> attempt] : c \in ExceptionClasses}

\* the wrapper returning None
ReturnedNone == [raised |-> FALSE, val |-> "None", attempt |-> 0]

RetryIdle ==
    /\ r_tries = 0 /\ r_exceptions = {} /\ r_iter = 0 /\ r_pc = "idle"
    /\ r_ret = ReturnedNone /\ r_attempts = <<>> /\ r_wrapper_calls = 0

\* retry(tries, exceptions)(fn) has been applied and the wrapper called
RetryInit ==
    /\ r_tries \in 0..MaxTries
    /\ r_exceptions \in ExceptionTuples
    /\ r_iter = 0
    /\ r_pc = "loop"
    /\ r_ret = ReturnedNone
    /\ r_attempts = <<>>
    /\ r_wrapper_calls = 1

\* one iteration of the for loop: fn is called, and returns or raises
Attempt ==
    /\ r_pc = "loop"
    /\ r_iter < Len(xrange(r_tries))
    /\ \E outcome \in FnOutcomes(Len(r_attempts) + 1) :
         LET n == xrange(r_tries)[r_iter + 1]
         IN  /\ r_attempts' = Append(r_attempts, outcome)
             /\ IF ~outcome.raised
                THEN \* return fn(*args, **kwargs)
                     /\ r_pc' = "returned" /\ r_ret' = outcome
                     /\ UNCHANGED r_iter
                ELSE IF Caught(outcome.val, r_exceptions) /\ ~IsLastTry(n, r_tries)
                THEN \* continue
                     /\ r_iter' = r_iter + 1
                     /\ UNCHANGED <<r_pc, r_ret>>
                ELSE \* raise, or an exception that is not caught
                     /\ r_pc' = "raised" /\ r_ret' = outcome
                     /\ UNCHANGED r_iter
    /\ UNCHANGED <<r_tries, r_exceptions, r_wrapper_calls>>

\* the for loop ends without a return or a raise: the wrapper returns None
LoopExhausted ==
    /\ r_pc = "loop"
    /\ r_iter >= Len(xrange(r_tries))
    /\ r_pc' = "returned"
    /\ r_ret' = ReturnedNone
    /\ UNCHANGED <<r_tries, r_exceptions, r_iter, r_attempts, r_wrapper_calls>>

\* the wrapper is called again
CallWrapper ==
    /\ r_pc \in {"returned", "raised"}
    /\ r_wrapper_calls < MaxWrapperCalls
    /\ r_wrapper_calls' = r_wrapper_calls + 1
    /\ r_iter' = 0
    /\ r_pc' = "loop"
    /\ r_ret' = ReturnedNone
    /\ r_attempts' = <<>>
    /\ UNCHANGED <<r_tries, r_exceptions>>

---------------------------------------------------------------------------
(* BetterScrapingLocator: urlparse, posixpath.basename, score_url, locate  *)

\* the characters of the model's strings in code point order
CodePoints ==
    <<" ", "#", "+", "-", ".", "/",
      "0","1","2","3","4","5","6","7","8","9", ":", "=", "?">>
    \o UpperLetters \o <<"_">> \o LowerLetters

\* ord(c), up to an order-preserving renumbering
ord(c) == CHOOSE i \in 1..Len(CodePoints) : CodePoints[i] = c

\* a > b on strings: the first differing character decides, else the length
RECURSIVE StrGreater(_, _)
StrGreater(a, b) ==
    IF a = <<>> THEN FALSE
    ELSE IF b = <<>> THEN TRUE
    ELSE IF Head(a) # Head(b) THEN ord(Head(a)) > ord(Head(b))
    ELSE StrGreater(Tail(a), Tail(b))

\* s.find of the first character that is in chars, 1-based, 0 when none
FindAny(s, chars) ==
    LET at == {i \in 1..Len(s) : s[i] \in chars}
    IN  IF at = {} THEN 0 ELSE CHOOSE i \in at : \A j \in at : i <= j

\* s.rfind(c), 1-based, 0 when none
FindLast(s, c) ==
    LET at == {i \in 1..Len(s) : s[i] = c}
    IN  IF at = {} THEN 0 ELSE CHOOSE i \in at : \A j \in at : j <= i

\* sub in s
Contains(s, sub) ==
    \E i \in 0..(Len(s) - Len(sub)) : SubSeq(s, i + 1, i + Len(sub)) = sub

\* the characters a URL scheme is made of
IsSchemeChar(c) == IsLower(c) \/ IsUpper(c) \/ c \in Digits \/ c \in {"+", "-", "."}

\* urlparse(url): the scheme before the first ":", the netloc between "//"
\* and the next "/", "?" or "#", and the path up to the fragment and the query
urlparse(url) ==
    LET colon == FindAny(url, {":"})
        hasScheme == colon > 1 /\ \A k \in 1..(colon - 1) : IsSchemeChar(url[k])
        afterScheme == IF hasScheme THEN Suffix(url, colon) ELSE url
        hasNetloc == Prefix(afterScheme, 2) = <<"/", "/">>
        afterSlashes == Suffix(afterScheme, 2)
        delim == FindAny(afterSlashes, {"/", "?", "#"})
        afterNetloc ==
            IF ~hasNetloc THEN afterScheme
            ELSE IF delim = 0 THEN <<>> ELSE Suffix(afterSlashes, delim - 1)
        hash == FindAny(afterNetloc, {"#"})
        beforeFragment ==
            IF hash = 0 THEN afterNetloc ELSE Prefix(afterNetloc, hash - 1)
        query == FindAny(beforeFragment, {"?"})
    IN  [scheme |-> IF hasScheme THEN lower(Prefix(url, colon - 1)) ELSE <<>>,
         netloc |-> IF ~hasNetloc THEN <<>>
                    ELSE IF delim = 0 THEN afterSlashes
                    ELSE Prefix(afterSlashes, delim - 1),
         path |-> IF query = 0 THEN beforeFragment
                  ELSE Prefix(beforeFragment, query - 1)]

\* posixpath.basename(p): what follows the last "/"
basename(p) == Suffix(p, FindLast(p, "/"))

HttpsScheme == <<"h","t","t","p","s">>
WheelExtension == <<".","w","h","l">>
PypiHost == <<"p","y","p","i",".","p","y","t","h","o","n",".","o","r","g">>

\* A plausible slip: the "not" left out.
MismatchesPreference(prefer, filename) ==
    (prefer /\ ~endswith(filename, WheelExtension))
        \/ (~prefer /\ endswith(filename, WheelExtension))

\* the second component: not (prefer_wheel ^ filename.endswith('.whl'))
MatchesPreference(prefer, filename) ==
    ~((prefer /\ ~endswith(filename, WheelExtension))
        \/ (~prefer /\ endswith(filename, WheelExtension)))

\* score_url(url), with self.prefer_wheel as it is read
score_url(prefer, url) ==
    LET t == urlparse(url)
        filename == basename(t.path)
    IN  << t.scheme = HttpsScheme,
           MatchesPreference(prefer, filename),
           Contains(t.netloc, PypiHost),
           filename >>

\* s1 > s2 on score tuples: the first differing component decides, and
\* True > False
TupleGreater(s1, s2) ==
    IF s1[1] # s2[1] THEN s1[1]
    ELSE IF s1[2] # s2[2] THEN s1[2]
    ELSE IF s1[3] # s2[3] THEN s1[3]
    ELSE StrGreater(s1[4], s2[4])

\* Locator.prefer_url(url1, url2) of distlib: url1 is kept when it scores
\* higher, and url2 replaces it otherwise or when there is no url1
prefer_url(prefer, url1, url2) ==
    IF url1 # <<>> /\ TupleGreater(score_url(prefer, url1), score_url(prefer, url2))
    THEN url1
    ELSE url2

UrlSchemes == { <<"h","t","t","p">>, <<"h","t","t","p","s">> }
UrlHosts == { <<"p","y","p","i",".","p","y","t","h","o","n",".","o","r","g">>, <<"m",".","o","r","g">> }
\* the paths of the links: a directory, a file name and what follows it
UrlPathParts ==
    { <<<<"/">>, <<"a",".","w","h","l">>, <<>>>>,
      <<<<"/","s","/">>, <<"b",".","w","h","l">>, <<"#","m","d","5","=","0">>>>,
      <<<<"/">>, <<"a",".","z","i","p">>, <<"?","x","=","1">>>> }
UrlPaths == {p[1] \o p[2] \o p[3] : p \in UrlPathParts}
Urls == {sch \o <<":", "/", "/">> \o host \o path :
            sch \in UrlSchemes, host \in UrlHosts, path \in UrlPaths}

\* the links one scrape of the index finds
ScrapedUrls == { <<"h","t","t","p","s",":","/","/","p","y","p","i",".","p","y","t","h","o","n",".","o","r","g","/","a",".","w","h","l">>, <<"h","t","t","p","s",":","/","/","p","y","p","i",".","p","y","t","h","o","n",".","o","r","g","/","a",".","z","i","p">> }

Threads == {"t1", "t2"}

LocatorIdle ==
    /\ prefer_wheel = TRUE
    /\ l_pc = [t \in Threads |-> "idle"]
    /\ l_wheel = [t \in Threads |-> TRUE]
    /\ l_scored = [t \in Threads |-> <<>>]
    /\ pu_url1 = <<>> /\ pu_url2 = <<>> /\ pu_ret = <<>>

\* locate(requirement, prereleases, wheel): the preference is stored on the
\* locator, then the superclass's locate runs
Locate(t, wheel) ==
    /\ l_pc[t] = "idle"
    /\ l_wheel' = [l_wheel EXCEPT ![t] = wheel]
    /\ prefer_wheel' = wheel
    /\ l_pc' = [l_pc EXCEPT ![t] = "locating"]
    /\ UNCHANGED <<l_scored, pu_url1, pu_url2, pu_ret>>

\* the superclass's locate scores one link it found, for the call of t
ScoreUrl(t, url) ==
    /\ l_pc[t] = "locating"
    /\ Len(l_scored[t]) < MaxScored
    /\ l_scored' = [l_scored EXCEPT ![t] =
           Append(@, [url |-> url, score |-> score_url(prefer_wheel, url)])]
    /\ UNCHANGED <<prefer_wheel, l_pc, l_wheel, pu_url1, pu_url2, pu_ret>>

\* the superclass's locate returns
LocateReturn(t) ==
    /\ l_pc[t] = "locating"
    /\ l_pc' = [l_pc EXCEPT ![t] = "returned"]
    /\ UNCHANGED <<prefer_wheel, l_wheel, l_scored, pu_url1, pu_url2, pu_ret>>

\* One caller at a time: a call of locate sets the preference (no two links
\* have been compared in it yet), and the superclass compares two candidate
\* links with prefer_url.
LocateAlone(wheel) ==
    /\ prefer_wheel' = wheel
    /\ pu_url1' = <<>> /\ pu_url2' = <<>> /\ pu_ret' = <<>>
    /\ UNCHANGED <<l_pc, l_wheel, l_scored>>

PreferUrl(url1, url2) ==
    /\ pu_url1' = url1
    /\ pu_url2' = url2
    /\ pu_ret' = prefer_url(prefer_wheel, url1, url2)
    /\ UNCHANGED <<prefer_wheel, l_pc, l_wheel, l_scored>>

---------------------------------------------------------------------------
(* The specifications.                                                     *)

SpecNormInit == NormInit /\ ParseIdle /\ DefaultsIdle /\ RetryIdle /\ LocatorIdle
SpecNormNext ==
    \/ NormalizeCall /\ UNCHANGED <<parseVars, defaultsVars, retryVars, locatorVars>>
    \/ NormalizeResult /\ UNCHANGED <<parseVars, defaultsVars, retryVars, locatorVars>>
SpecNorm == SpecNormInit /\ [][SpecNormNext]_vars

SpecParseInit == NormIdle /\ ParseInit /\ DefaultsIdle /\ RetryIdle /\ LocatorIdle
SpecParseNext ==
    ParseFilenameCall /\ UNCHANGED <<normVars, defaultsVars, retryVars, locatorVars>>
SpecParse == SpecParseInit /\ [][SpecParseNext]_vars

SpecDefaultsInit == NormIdle /\ ParseIdle /\ DefaultsInit /\ RetryIdle /\ LocatorIdle
SpecDefaultsNext ==
    GetDefaultsCall /\ UNCHANGED <<normVars, parseVars, retryVars, locatorVars>>
SpecDefaults == SpecDefaultsInit /\ [][SpecDefaultsNext]_vars

SpecRetryInit == NormIdle /\ ParseIdle /\ DefaultsIdle /\ RetryInit /\ LocatorIdle
SpecRetryNext ==
    \/ Attempt /\ UNCHANGED <<normVars, parseVars, defaultsVars, locatorVars>>
    \/ LoopExhausted /\ UNCHANGED <<normVars, parseVars, defaultsVars, locatorVars>>
    \/ CallWrapper /\ UNCHANGED <<normVars, parseVars, defaultsVars, locatorVars>>
SpecRetry == SpecRetryInit /\ [][SpecRetryNext]_vars

SpecScoreInit == NormIdle /\ ParseIdle /\ DefaultsIdle /\ RetryIdle /\ LocatorIdle
SpecScoreNext ==
    \/ \E wheel \in BOOLEAN :
         LocateAlone(wheel) /\ UNCHANGED <<normVars, parseVars, defaultsVars, retryVars>>
    \/ \E url1 \in Urls \cup {<<>>}, url2 \in Urls :
         PreferUrl(url1, url2) /\ UNCHANGED <<normVars, parseVars, defaultsVars, retryVars>>
SpecScore == SpecScoreInit /\ [][SpecScoreNext]_vars

SpecLocateInit == NormIdle /\ ParseIdle /\ DefaultsIdle /\ RetryIdle /\ LocatorIdle
SpecLocateNext ==
    \/ \E t \in Threads, wheel \in BOOLEAN :
         Locate(t, wheel) /\ UNCHANGED <<normVars, parseVars, defaultsVars, retryVars>>
    \/ \E t \in Threads, url \in ScrapedUrls :
         ScoreUrl(t, url) /\ UNCHANGED <<normVars, parseVars, defaultsVars, retryVars>>
    \/ \E t \in Threads :
         LocateReturn(t) /\ UNCHANGED <<normVars, parseVars, defaultsVars, retryVars>>
SpecLocate == SpecLocateInit /\ [][SpecLocateNext]_vars

---------------------------------------------------------------------------
(* The claims.                                                             *)

\* a name in canonical form: no upper-case letter, no "_" or ".", and no two
\* adjacent "-"
IsCanonicalName(s) ==
    /\ \A i \in 1..Len(s) : ~IsUpper(s[i]) /\ s[i] \notin {"_", "."}
    /\ \A i \in 1..(Len(s) - 1) : ~(s[i] = "-" /\ s[i + 1] = "-")

\* C9: normalize_name is idempotent, normalizing a result returns it
\* unchanged, and a result holds no upper-case letter, no "_" or "." and no
\* two adjacent "-".
C9_NormalizeIdempotent ==
    nn_pc = "returned" =>
        /\ normalize_name(nn_ret) = nn_ret
        /\ IsCanonicalName(nn_ret)

\* C9, in the run: the call on a result returns that result.
C9_Witness ==
    /\ nn_pc = "returned"
    /\ nn_calls = 2
    /\ nn_arg = <<"b", "-", "a">>
    /\ nn_ret = <<"b", "-", "a">>

\* the extensions (by position) that are a suffix of the filename
SuffixMatches == {i \in 1..Len(ALL_EXTENSIONS) : endswith(pf_filename, ALL_EXTENSIONS[i])}

\* the split of the filename trimmed of the i-th extension
SplitAt(i) ==
    split_filename(Prefix(pf_filename, Len(pf_filename) - Len(ALL_EXTENSIONS[i])),
                   pf_name)

\* the first extension, in the declared order, that is a suffix
FirstSuffixMatch == CHOOSE i \in SuffixMatches : \A j \in SuffixMatches : i <= j

\* the extensions that are a suffix and whose split succeeds
SuccessfulMatches == {i \in SuffixMatches : SplitAt(i).found}

FirstSuccessfulMatch ==
    CHOOSE i \in SuccessfulMatches : \A j \in SuccessfulMatches : i <= j

\* C4, as amended: with a non-empty hint name, the name returned on success
\* is normalize_name of the hint, whatever name component the split of the
\* trimmed filename produced.
C4_HintNameReturned ==
    (pf_pc = "returned" /\ pf_name # None /\ pf_name # <<>>) =>
        pf_ret.name = normalize_name(pf_name)

\* C4, in the run: a call with a hint succeeds on a filename whose split
\* produced another name than the hint.
C4_Witness ==
    /\ pf_pc = "returned"
    /\ pf_name = <<"a">>
    /\ SplitAt(FirstSuffixMatch).name = <<"B">>
    /\ pf_ret.name = <<"a">>

\* C4, as claimed: with a non-empty hint name, the name returned on success
\* is normalize_name of the name component the split produced.
C4_ParsedNameReturned ==
    (pf_pc = "returned" /\ pf_name # None /\ pf_name # <<>>) =>
        pf_ret.name = normalize_name(SplitAt(FirstSuffixMatch).name)

C6_FailsOrReturnsPair ==
    pf_pc # "ready" =>
        LET failed == SuffixMatches = {} \/ ~SplitAt(FirstSuffixMatch).found
        IN  /\ failed <=> pf_pc = "raised"
            /\ ~failed <=> pf_pc = "returned"
            /\ pf_pc = "raised" =>
                 pf_ret = [raised |-> TRUE, exc |-> "ValueError",
                           filename |-> pf_filename]
            /\ pf_pc = "returned" =>
                 /\ ~pf_ret.raised
                 /\ IsCanonicalName(pf_ret.name)
                 /\ pf_ret.version = SplitAt(FirstSuffixMatch).version

\* C6, in the run: "not-a-package-file.txt" is refused.
C6_Witness ==
    /\ pf_pc = "raised"
    /\ pf_name = None
    /\ pf_filename =
         <<"n","o","t","-","a","-","p","a","c","k","a","g","e","-","f","i","l","e",
           ".","t","x","t">>
    /\ pf_ret.exc = "ValueError"

\* C6, in the run: "Foo_Bar-1.0-py2-none-any.whl" yields ("foo-bar", "1.0").
C6_WitnessReturned ==
    /\ pf_pc = "returned"
    /\ pf_name = None
    /\ pf_ret.name = <<"f","o","o","-","b","a","r">>
    /\ pf_ret.version = <<"1", ".", "0">>

\* the keys of the call, and the positions of those that are in settings
DefaultsKeys == Prefix(gd_args, Len(gd_args) - 1)
PresentKeys == {i \in 1..Len(DefaultsKeys) : DefaultsKeys[i] \in DOMAIN gd_settings}
FirstPresentKey == CHOOSE i \in PresentKeys : \A j \in PresentKeys : i <= j

\* what a call that returned must have returned and logged
DefaultsResult ==
    gd_pc = "returned" =>
        IF PresentKeys = {}
        THEN gd_ret = gd_args[Len(gd_args)] /\ gd_log = <<>>
        ELSE /\ gd_ret = gd_settings[DefaultsKeys[FirstPresentKey]]
             /\ IF DefaultsKeys[FirstPresentKey] # DefaultsKeys[1]
                THEN /\ Len(gd_log) = 1
                     /\ gd_log[1].key = DefaultsKeys[FirstPresentKey]
                     /\ gd_log[1].canonical = DefaultsKeys[1]
                ELSE gd_log = <<>>

RaisedInE(outcome) ==
    outcome.raised /\ \E base \in r_exceptions : IsSubclass(outcome.val, base)

\* C1: when attempts 1..k-1 raise exceptions of E and attempt k succeeds,
\* k <= N, the wrapper returns the result of attempt k after exactly k
\* invocations: no attempt follows a success, the wrapper does not give up
\* before N attempts, and fn is never invoked more than N times in one call.
C1_ReturnsFirstSuccess ==
    /\ Len(r_attempts) <= r_tries
    /\ \A j \in 1..Len(r_attempts) :
         ~r_attempts[j].raised =>
             j = Len(r_attempts) /\ r_pc = "returned" /\ r_ret = r_attempts[j]
    /\ (r_tries >= 1 /\ r_pc = "returned") =>
         /\ Len(r_attempts) >= 1
         /\ r_ret = r_attempts[Len(r_attempts)]
         /\ ~r_ret.raised
    /\ (r_pc = "raised" /\ \A j \in 1..Len(r_attempts) : RaisedInE(r_attempts[j])) =>
         Len(r_attempts) = r_tries

\* C1, in the run: with tries=3, fn fails twice and then succeeds, and the
\* wrapper returns the third attempt's value.
C1_Witness ==
    /\ r_tries = 3
    /\ r_pc = "returned"
    /\ Len(r_attempts) = 3
    /\ RaisedInE(r_attempts[1]) /\ RaisedInE(r_attempts[2])
    /\ r_ret = [raised |-> FALSE, val |-> "ok", attempt |-> 3]

\* C2: when the first N attempts all raise exceptions of E, N >= 1, the
\* call ends raising the exception of the N-th attempt, not an earlier one
\* and not a return.
C2_RaisesLastException ==
    ( /\ r_tries >= 1
      /\ Len(r_attempts) = r_tries
      /\ \A j \in 1..Len(r_attempts) : RaisedInE(r_attempts[j]) ) =>
        r_pc = "raised" /\ r_ret = r_attempts[r_tries]

\* C2, in the run: with tries=2, fn fails twice and the second exception
\* propagates.
C2_Witness ==
    /\ r_tries = 2
    /\ r_pc = "raised"
    /\ Len(r_attempts) = 2
    /\ RaisedInE(r_attempts[1]) /\ RaisedInE(r_attempts[2])
    /\ r_attempts[1].val # r_attempts[2].val
    /\ r_ret = r_attempts[2]

\* C10: an exception that is not in E propagates at once, no attempt follows
\* it; an attempt is followed by another only if it raised an exception of E
\* and fewer than N attempts had been made.
C10_UncaughtPropagates ==
    /\ \A j \in 1..Len(r_attempts) :
         (r_attempts[j].raised /\ ~RaisedInE(r_attempts[j])) =>
             j = Len(r_attempts) /\ r_pc = "raised" /\ r_ret = r_attempts[j]
    /\ \A j \in 1..(Len(r_attempts) - 1) : RaisedInE(r_attempts[j]) /\ j < r_tries
    /\ r_pc = "loop" =>
         \A j \in 1..Len(r_attempts) : RaisedInE(r_attempts[j]) /\ j < r_tries

\* C10, in the run: with tries=3 and E = (IOError,), the first attempt raises
\* a KeyError, which propagates after one invocation.
C10_Witness ==
    /\ r_tries = 3
    /\ r_exceptions = {"IOError"}
    /\ r_pc = "raised"
    /\ r_attempts = << [raised |-> TRUE, val |-> "KeyError", attempt |-> 1] >>
    /\ r_ret = r_attempts[1]

\* the parts (scheme, host, path parts) a link of Urls was built from
UrlParts(url) ==
    CHOOSE p \in UrlSchemes \X UrlHosts \X UrlPathParts :
        url = p[1] \o <<":", "/", "/">> \o p[2] \o p[3][1] \o p[3][2] \o p[3][3]

\* the ranking of the claim, on the parts: https first, then the match with
\* the wheel preference, then the canonical host, then the file name
RanksHigher(p1, p2) ==
    LET https1 == p1[1] = HttpsScheme
        https2 == p2[1] = HttpsScheme
        match1 == prefer_wheel <=> endswith(p1[3][2], WheelExtension)
        match2 == prefer_wheel <=> endswith(p2[3][2], WheelExtension)
        pypi1 == p1[2] = PypiHost
        pypi2 == p2[2] = PypiHost
    IN  \/ https1 /\ ~https2
        \/ https1 = https2 /\ match1 /\ ~match2
        \/ https1 = https2 /\ match1 = match2 /\ pypi1 /\ ~pypi2
        \/ https1 = https2 /\ match1 = match2 /\ pypi1 = pypi2
             /\ StrGreater(p1[3][2], p2[3][2])

\* C8: of two links, the one kept is the higher in the lexicographic order
\* of (is-https, matches-wheel-preference, is-canonical-host, filename).
C8_ScoreOrder ==
    (pu_url1 # <<>> /\ pu_url2 # <<>>) =>
        IF RanksHigher(UrlParts(pu_url1), UrlParts(pu_url2))
        THEN pu_ret = pu_url1 /\ pu_url1 # pu_url2
        ELSE pu_ret = pu_url2

\* C8, in the run: with the wheel preferred, an HTTPS wheel on the canonical
\* host is kept against an HTTP sdist on a mirror.
C8_Witness ==
    /\ prefer_wheel
    /\ pu_url1 = <<"h","t","t","p","s",":","/","/","p","y","p","i",".","p","y","t","h","o","n",".","o","r","g","/","a",".","w","h","l">>
    /\ pu_url2 = <<"h","t","t","p",":","/","/","m",".","o","r","g","/","a",".","z","i","p","?","x","=","1">>
    /\ pu_ret = pu_url1

\* C8, in the run: with the wheel not preferred, the sdist is kept against a
\* wheel of the same scheme and host.
C8_WitnessSdist ==
    /\ ~prefer_wheel
    /\ pu_url1 = <<"h","t","t","p","s",":","/","/","p","y","p","i",".","p","y","t","h","o","n",".","o","r","g","/","a",".","z","i","p","?","x","=","1">>
    /\ pu_url2 = <<"h","t","t","p","s",":","/","/","p","y","p","i",".","p","y","t","h","o","n",".","o","r","g","/","a",".","w","h","l">>
    /\ pu_ret = pu_url1

\* C3: locate is safe to call from two threads on one locator: every score
\* computed for a call uses that call's own wheel preference.
C3_OwnPreference ==
    \A t \in Threads : \A i \in 1..Len(l_scored[t]) :
        l_scored[t][i].score[2] =
            (l_wheel[t] <=> endswith(basename(urlparse(l_scored[t][i].url).path),
                                     WheelExtension))

=============================================================================
